---- MODULE Spec2Model ----
(***************************************************************************)
(* Job scheduling, cancellation and result caching of the browser PDF      *)
(* compressor (src/pdfapi.js) in front of its single compression worker    *)
(* (src/compress-worker.js).                                               *)
(*                                                                         *)
(* Every event-loop task of the page is one action: a handler runs from    *)
(* its start, or from the await it was suspended at, to its next await.    *)
(***************************************************************************)
EXTENDS Integers, Sequences, FiniteSets, TLC

\* Bounds of the model.
MaxCalls == 3       \* compress() calls of the class-level callers
MaxWorkers == 2     \* Worker objects the class-level callers create
MaxActions == 3     \* user events of the page (valid file chosen, quality clicked, reset clicked)
MaxJobs == 2        \* compress() calls of the page
MaxInvocations == 7 \* init() calls on one GhostscriptEngine
MaxBytes == 2       \* size of the PDF a request carries
MaxHandles == 3     \* object URLs a class-level caller of PreviewCache creates

\* The quality keys a class-level caller passes to compress().
CallerQualities == {"low", "original"}
\* The quality options a user clicks in one behaviour (of low, medium, good,
\* high, best, original: src/pdfapi.js:334-341).
UserQualities == {"original", "low"}

\* const qualities of preloadAllQualities (src/pdfapi.js:606)
PreloadQualities == <<"low", "medium", "fair", "good", "high">>
\* lockAllQualities (src/pdfapi.js:329)
LockedByDefault == {"low", "medium", "good", "high", "best"}

VARIABLES
    \* CompressionWorker fields (src/pdfapi.js:98-105)
    worker,             \* 0 for null, else the identity of the live Worker object
    messageId,
    pendingRequests,    \* the Map messageId -> {resolve, reject, blobURL}, as a set of entries
    isProcessing,
    queue,
    \* the environment of the manager
    workerSeq,          \* Worker objects created so far
    chan,               \* requests posted to the live worker and not yet answered
    handlers,           \* onmessage handler runs suspended at the fetch await
    \* the promises returned by compress(), in call order, and the history of posts
    jobs,
    posted,
    \* PDFCompressor fields (src/pdfapi.js:354-366)
    file,               \* 0 for null, else the identity of the File object
    quality,
    previewRequestId,
    preloadPaused,
    pendingQualities,
    isPreloading,
    cache,              \* PreviewCache.cache, as a set of entries
    urls,               \* the object URLs created for the cache and not revoked
    \* the page
    fileSeq,            \* File objects chosen so far
    locked,             \* the quality options carrying the class quality-locked
    uiReady,            \* the quality options are visible (compressionOptions shown)
    tasks,              \* the suspended async functions of PDFCompressor
    timers,             \* the pending Utils.delay timers, oldest first
    shown,              \* the last presentation of a result
    notice,             \* the last failure the page showed to the user
    nActions            \* user events so far

VARIABLES
    \* GhostscriptEngine fields (src/compress-worker.js:9-14)
    module,             \* 0 for null, else the identity of the loaded WASM module
    compressionCount,
    \* the callers of the engine
    enginePc,           \* "idle", or "ready": init() returned and compress() is next
    moduleSeq,          \* WASM modules loaded so far
    invocations,        \* init() calls so far
    served,             \* successful compress() calls of the current module
    lastForce,          \* the forceReinit argument of the latest init() call
    clean,              \* no call has failed or asked for forceReinit so far
    failed,             \* the latest compress() call threw
    staged              \* the staging files in the file system of the module

VARIABLES
    \* PDFCompressionWorker (src/compress-worker.js:94-165)
    proc                \* the run of process() in the worker: its position and locals

VARIABLES
    \* a class-level caller of PreviewCache (src/pdfapi.js:199-221)
    probe               \* its latest call and what the call returned

pageVars == <<worker, messageId, pendingRequests, isProcessing, queue,
              workerSeq, chan, handlers, jobs, posted,
              file, quality, previewRequestId, preloadPaused, pendingQualities,
              isPreloading, cache, urls, fileSeq, locked, uiReady, tasks,
              timers, shown, notice, nActions>>

engineVars == <<module, compressionCount, enginePc, moduleSeq, invocations,
                served, lastForce, clean, failed, staged>>

procVars == <<proc>>

callerVars == <<probe>>

vars == <<pageVars, engineVars, procVars, callerVars>>

Statuses == {"success", "error"}

-----------------------------------------------------------------------------
(* The objects and their environment as one record, so that a method is a   *)
(* function from the record before the call to the record after it.         *)

St ==
    [worker |-> worker, messageId |-> messageId, pendingRequests |-> pendingRequests,
     isProcessing |-> isProcessing, queue |-> queue, workerSeq |-> workerSeq,
     chan |-> chan, handlers |-> handlers, jobs |-> jobs, posted |-> posted,
     file |-> file, quality |-> quality, previewRequestId |-> previewRequestId,
     preloadPaused |-> preloadPaused, pendingQualities |-> pendingQualities,
     isPreloading |-> isPreloading, cache |-> cache, urls |-> urls,
     fileSeq |-> fileSeq,
     locked |-> locked, uiReady |-> uiReady, tasks |-> tasks,
     timers |-> timers, shown |-> shown, notice |-> notice, nActions |-> nActions]

SetSt(s) ==
    /\ worker' = s.worker
    /\ messageId' = s.messageId
    /\ pendingRequests' = s.pendingRequests
    /\ isProcessing' = s.isProcessing
    /\ queue' = s.queue
    /\ workerSeq' = s.workerSeq
    /\ chan' = s.chan
    /\ handlers' = s.handlers
    /\ jobs' = s.jobs
    /\ posted' = s.posted
    /\ file' = s.file
    /\ quality' = s.quality
    /\ previewRequestId' = s.previewRequestId
    /\ preloadPaused' = s.preloadPaused
    /\ pendingQualities' = s.pendingQualities
    /\ isPreloading' = s.isPreloading
    /\ cache' = s.cache
    /\ urls' = s.urls
    /\ fileSeq' = s.fileSeq
    /\ locked' = s.locked
    /\ uiReady' = s.uiReady
    /\ tasks' = s.tasks
    /\ timers' = s.timers
    /\ shown' = s.shown
    /\ notice' = s.notice
    /\ nActions' = s.nActions

\* new Promise((resolve, reject) => ...) of compress(): the job record. by
\* names the async function that awaits the promise (its kind and the number of
\* the user event that started it).
NewJob(q, f) ==
    [quality |-> q, file |-> f, state |-> "new", wid |-> 0, mid |-> 0,
     viaQueue |-> FALSE, abandoned |-> FALSE, servedFor |-> 0,
     by |-> [type |-> "caller", tid |-> 0]]

\* Map.get / Map.set / Map.delete on pendingRequests
PendingGet(s, m) == {e \in s.pendingRequests : e.messageId = m}
PendingSet(s, m, j) ==
    {e \in s.pendingRequests : e.messageId # m} \cup {[messageId |-> m, job |-> j]}
PendingDelete(s, m) == {e \in s.pendingRequests : e.messageId # m}

\* executeCompress(fileBuffer, quality, customDPI, resolve, reject)
ExecuteCompress(s, j) ==
    LET m == s.messageId + 1
    IN  [s EXCEPT !.isProcessing = TRUE,
                  !.messageId = m,
                  !.pendingRequests = PendingSet(s, m, j),
                  \* this.worker.postMessage throws on a null worker
                  !.chan = IF s.worker = 0 THEN @ ELSE @ \cup {[messageId |-> m, job |-> j]},
                  !.jobs[j].state = "posted",
                  !.jobs[j].wid = s.worker,
                  !.jobs[j].mid = m,
                  !.posted = IF s.worker = 0 THEN @ ELSE Append(@, j)]

\* processNext() that leaves the queue as it is
ProcessNextLeavesQueue(s) == [s EXCEPT !.isProcessing = FALSE]

\* processNext()
ProcessNext(s) ==
    LET s1 == [s EXCEPT !.isProcessing = FALSE]
    IN  IF Len(s1.queue) > 0
        THEN ExecuteCompress([s1 EXCEPT !.queue = Tail(@)], Head(s1.queue))
        ELSE s1

\* compress(fileBuffer, quality, customDPI): the promise executor
Compress(s, q, f) ==
    LET j == Len(s.jobs) + 1
        s1 == [s EXCEPT !.jobs = Append(@, NewJob(q, f))]
    IN  IF s1.isProcessing
        THEN [s1 EXCEPT !.queue = Append(@, j), !.jobs[j].state = "queued",
                        !.jobs[j].viaQueue = TRUE]
        ELSE IF s1.worker = 0
             THEN [ExecuteCompress(s1, j) EXCEPT !.jobs[j].state = "rejected"]
             ELSE ExecuteCompress(s1, j)

\* init(): creates the Worker and installs onmessage when there is none
WorkerInit(s) ==
    IF s.worker = 0
    THEN [s EXCEPT !.worker = s.workerSeq + 1, !.workerSeq = s.workerSeq + 1]
    ELSE s

\* The jobs a reset() finds queued or in flight (posted, response not fully handled).
Unsettled(s) ==
    {j \in 1..Len(s.jobs) : s.jobs[j].state \in {"queued", "posted", "handling"}}

\* reset() that leaves isProcessing as it finds it
WorkerResetKeepsBusy(s) ==
    [s EXCEPT !.worker = 0,
              !.chan = {},
              !.messageId = 0,
              !.pendingRequests = {},
              !.queue = <<>>,
              !.jobs = [j \in 1..Len(s.jobs) |->
                          IF j \in Unsettled(s)
                          THEN [s.jobs[j] EXCEPT !.abandoned = TRUE]
                          ELSE s.jobs[j]]]

\* reset() that drops its reference to the worker without terminating it
WorkerResetNoTerminate(s) ==
    [s EXCEPT !.worker = 0,
              !.messageId = 0,
              !.pendingRequests = {},
              !.isProcessing = FALSE,
              !.queue = <<>>,
              !.jobs = [j \in 1..Len(s.jobs) |->
                          IF j \in Unsettled(s)
                          THEN [s.jobs[j] EXCEPT !.abandoned = TRUE]
                          ELSE s.jobs[j]]]

\* reset(): worker.terminate() drops the worker's requests and unanswered responses
WorkerReset(s) ==
    [s EXCEPT !.worker = 0,
              !.chan = {},
              !.messageId = 0,
              !.pendingRequests = {},
              !.isProcessing = FALSE,
              !.queue = <<>>,
              !.jobs = [j \in 1..Len(s.jobs) |->
                          IF j \in Unsettled(s)
                          THEN [s.jobs[j] EXCEPT !.abandoned = TRUE]
                          ELSE s.jobs[j]]]

\* resolve(...) / reject(...) of a job's promise
Settle(s, j, how) == [s EXCEPT !.jobs[j].state = how]

\* onmessage whose error branch returns without processNext()
OnMessageNoNextOnError(s, msg, status) ==
    LET pending == PendingGet(s, msg.messageId)
    IN  IF pending = {}
        THEN ProcessNext(s)
        ELSE LET e == CHOOSE x \in pending : TRUE
                 s1 == [s EXCEPT !.pendingRequests = PendingDelete(s, msg.messageId),
                                 !.jobs[e.job].servedFor = msg.job]
             IN  IF status = "success"
                 THEN [s1 EXCEPT !.handlers = @ \cup {e.job},
                                 !.jobs[e.job].state = "handling"]
                 ELSE Settle(s1, e.job, "rejected")

\* worker.onmessage up to its first await (or to its end)
OnMessage(s, msg, status) ==
    LET pending == PendingGet(s, msg.messageId)
    IN  IF pending = {}
        THEN ProcessNext(s)
        ELSE LET e == CHOOSE x \in pending : TRUE
                 s1 == [s EXCEPT !.pendingRequests = PendingDelete(s, msg.messageId),
                                 !.jobs[e.job].servedFor = msg.job]
             IN  IF status = "success"
                 THEN [s1 EXCEPT !.handlers = @ \cup {e.job},
                                 !.jobs[e.job].state = "handling"]
                 ELSE ProcessNext(Settle(s1, e.job, "rejected"))

\* worker.onmessage from the fetch await to its end
OnMessageResume(s, j, fetched) ==
    LET s1 == [s EXCEPT !.handlers = @ \ {j}]
    IN  ProcessNext(Settle(s1, j, IF fetched THEN "resolved" ELSE "rejected"))

-----------------------------------------------------------------------------
(* PreviewCache (src/pdfapi.js:200-221). An entry is named by the file and   *)
(* the job its blob comes from (job 0: the file itself).                     *)

CacheHas(s, k) == \E e \in s.cache : e.key = k
CacheGet(s, k) == CHOOSE e \in s.cache : e.key = k

\* set that keeps the entry a key already has
CacheSetKeepsFirst(s, k, f, j) ==
    IF CacheHas(s, k) THEN s
    ELSE [s EXCEPT !.cache = @ \cup {[key |-> k, file |-> f, job |-> j]}]

CacheSet(s, k, f, j) ==
    [s EXCEPT !.cache = {e \in @ : e.key # k} \cup {[key |-> k, file |-> f, job |-> j]}]

\* The object URL of an entry: the one made from the result of job j of file f.
Handle(e) == [file |-> e.file, job |-> e.job]

\* clear that revokes nothing
CacheClearNoRevoke(s) == [s EXCEPT !.cache = {}]

CacheClear(s) ==
    [s EXCEPT !.urls = @ \ {Handle(e) : e \in s.cache}, !.cache = {}]

\* const url = URL.createObjectURL(blob)
CreateObjectURL(s, f, j) == [s EXCEPT !.urls = @ \cup {[file |-> f, job |-> j]}]
\* ... createObjectURL(blob); this.cache.set(key, blob, url)
StoreResult(s, k, f, j) == CacheSet(CreateObjectURL(s, f, j), k, f, j)

-----------------------------------------------------------------------------
(* The suspended async functions of PDFCompressor *)

NoTask ==
    [tid |-> 0, type |-> "none", pc |-> "none", req |-> 0, bumps |-> 0,
     key |-> "none", file |-> 0, job |-> 0, idx |-> 0, ms |-> 0]

\* An async function reaches its first await. Every user event starts one
\* chain of async functions, each started when the one before it ends, so the
\* number n of the event names the suspended function.
Spawn(s, n, t) ==
    [s EXCEPT !.tasks = @ \cup {[t EXCEPT !.tid = n]},
              !.timers = IF t.ms > 0 THEN Append(@, n) ELSE @]

\* A resumed async function reaches its next await (t.ms > 0: a Utils.delay).
Suspend(s, old, t) ==
    [s EXCEPT !.tasks = (@ \ {old}) \cup {t},
              !.timers = IF t.ms > 0 THEN Append(@, t.tid) ELSE @]

\* A resumed async function returns or throws.
EndTask(s, old) == [s EXCEPT !.tasks = @ \ {old}]

\* UIManager.unlockQuality(quality, ...), lockAllQualities()
UnlockQuality(s, q) == [s EXCEPT !.locked = @ \ {q}]
LockAllQualities(s) == [s EXCEPT !.locked = @ \cup LockedByDefault]

\* this.previewRequestId++ (each suspended function counts the increments
\* since it started)
Bump(s) ==
    [s EXCEPT !.previewRequestId = @ + 1,
              !.tasks = {IF t.type = "preload" THEN t ELSE [t EXCEPT !.bumps = @ + 1] :
                         t \in @}]

\* isOutdated() comparing with > instead of !==
IsOutdatedGreater(s, t) == t.req > s.previewRequestId

\* isOutdated() of loadQualityWithPriority
IsOutdated(s, t) == t.req # s.previewRequestId

\* A result reaches the screen: renderer.load drew it, updatePreviewSize or the
\* foreground unlockQuality wrote its size.
Present(s, t, kind) ==
    [s EXCEPT !.shown = [by |-> t.type, kind |-> kind, key |-> t.key,
                         stale |-> IsOutdated(s, t)]]

\* The failure of a request reaches the screen: the alert() box of
\* loadQualityWithPriority, or the hint 'Error - retry' that unlockQuality
\* writes on the option of a quality.
NoNotice == [by |-> "none", kind |-> "none", key |-> "none", stale |-> FALSE]
Notify(s, t, kind) ==
    [s EXCEPT !.notice = [by |-> t.type, kind |-> kind, key |-> t.key,
                          stale |-> t.type = "priority" /\ IsOutdated(s, t)]]

\* await this.worker.compress(fileBuffer, quality, null) in the async function t
Submit(s, t, q) ==
    LET s1 == Compress(s, q, t.file)
    IN  [s1 EXCEPT !.jobs[Len(s1.jobs)].by = [type |-> t.type, tid |-> t.tid]]

\* unlockRemaining of preloadAllQualities
RECURSIVE UnlockRemaining(_, _)
UnlockRemaining(s, i) ==
    IF i > Len(PreloadQualities) THEN s
    ELSE UnlockRemaining(IF CacheHas(s, PreloadQualities[i]) THEN s
                         ELSE UnlockQuality(s, PreloadQualities[i]), i + 1)

\* preloadAllQualities() up to its first await
PreloadAllQualities(s, n) ==
    IF s.isPreloading THEN s
    ELSE IF \A i \in 1..Len(PreloadQualities) : CacheHas(s, PreloadQualities[i]) THEN s
    ELSE LET s1 == WorkerInit([s EXCEPT !.isPreloading = TRUE])
         IN  IF s1.file = 0
             THEN s1     \* currentFile.arrayBuffer() throws on null
             ELSE Spawn(s1, n, [NoTask EXCEPT !.type = "preload", !.pc = "buffer",
                                           !.file = s1.file])

\* the for loop without its `if (this.cache.has(quality)) continue`
RECURSIVE PreloadLoopNoCacheSkip(_, _, _)
PreloadLoopNoCacheSkip(s, t, i) ==
    IF i > Len(PreloadQualities)
    THEN EndTask([s EXCEPT !.isPreloading = FALSE], t)
    ELSE LET q == PreloadQualities[i]
         IN  IF s.file # t.file \/ s.preloadPaused
             THEN EndTask([UnlockRemaining(s, 1) EXCEPT !.isPreloading = FALSE], t)
             ELSE IF q \in s.pendingQualities THEN PreloadLoopNoCacheSkip(s, t, i + 1)
             ELSE LET s1 == Submit([s EXCEPT !.pendingQualities = @ \cup {q}], t, q)
                  IN  Suspend(s1, t, [t EXCEPT !.pc = "compress", !.idx = i, !.key = q,
                                               !.job = Len(s1.jobs), !.ms = 0])

\* the for loop of preloadAllQualities from level i to the next await or the end
RECURSIVE PreloadLoop(_, _, _)
PreloadLoop(s, t, i) ==
    IF i > Len(PreloadQualities)
    THEN EndTask([s EXCEPT !.isPreloading = FALSE], t)
    ELSE LET q == PreloadQualities[i]
         IN  IF s.file # t.file \/ s.preloadPaused
             THEN EndTask([UnlockRemaining(s, 1) EXCEPT !.isPreloading = FALSE], t)
             ELSE IF CacheHas(s, q) THEN PreloadLoop(UnlockQuality(s, q), t, i + 1)
             ELSE IF q \in s.pendingQualities THEN PreloadLoop(s, t, i + 1)
             ELSE LET s1 == Submit([s EXCEPT !.pendingQualities = @ \cup {q}], t, q)
                  IN  Suspend(s1, t, [t EXCEPT !.pc = "compress", !.idx = i, !.key = q,
                                               !.job = Len(s1.jobs), !.ms = 0])

\* preloadAllQualities without the test after the compression
PreloadAfterCompressNoCheck(s, t) ==
    LET s1 == [s EXCEPT !.pendingQualities = @ \ {t.key}]
    IN  IF s.jobs[t.job].state = "resolved"
        THEN Suspend(UnlockQuality(StoreResult(s1, t.key, s1.jobs[t.job].file, t.job),
                                   t.key),
                     t, [t EXCEPT !.pc = "delay", !.ms = 100])
        ELSE Suspend(Notify(UnlockQuality(s1, t.key), t, "hint"),
                     t, [t EXCEPT !.pc = "delay", !.ms = 200])

\* preloadAllQualities whose catch block returns
PreloadAfterCompressStopsOnError(s, t) ==
    LET s1 == [s EXCEPT !.pendingQualities = @ \ {t.key}]
    IN  IF s.jobs[t.job].state = "resolved"
        THEN IF s1.file # t.file \/ s1.preloadPaused
             THEN EndTask([UnlockRemaining(s1, 1) EXCEPT !.isPreloading = FALSE], t)
             ELSE Suspend(UnlockQuality(StoreResult(s1, t.key, s1.jobs[t.job].file, t.job),
                                        t.key),
                          t, [t EXCEPT !.pc = "delay", !.ms = 100])
        ELSE EndTask([Notify(UnlockQuality(s1, t.key), t, "hint")
                         EXCEPT !.isPreloading = FALSE], t)

\* preloadAllQualities after await this.worker.compress(...)
PreloadAfterCompress(s, t) ==
    LET s1 == [s EXCEPT !.pendingQualities = @ \ {t.key}]
    IN  IF s.jobs[t.job].state = "resolved"
        THEN IF s1.file # t.file \/ s1.preloadPaused
             THEN EndTask([UnlockRemaining(s1, 1) EXCEPT !.isPreloading = FALSE], t)
             ELSE Suspend(UnlockQuality(StoreResult(s1, t.key, s1.jobs[t.job].file, t.job),
                                        t.key),
                          t, [t EXCEPT !.pc = "delay", !.ms = 100])
        ELSE Suspend(Notify(UnlockQuality(s1, t.key), t, "hint"),
                     t, [t EXCEPT !.pc = "delay", !.ms = 200])

\* loadQualityWithPriority() up to its first await
LoadQualityWithPriority(s) ==
    Spawn(WorkerInit(s), s.nActions,
          [NoTask EXCEPT !.type = "priority", !.pc = "buffer",
                         !.req = s.previewRequestId, !.key = s.quality, !.file = s.file])

\* the catch of loadQualityWithPriority
PriorityFailed(s, t) ==
    IF IsOutdated(s, t) THEN EndTask(s, t) ELSE EndTask(Notify(s, t, "alert"), t)

\* loadQualityWithPriority after await this.file.arrayBuffer()
PriorityAfterBuffer(s, t, ok) ==
    IF ~ok THEN PriorityFailed(s, t)
    ELSE IF IsOutdated(s, t) THEN EndTask(s, t)
    ELSE LET s1 == Submit(s, t, t.key)
         IN  Suspend(s1, t, [t EXCEPT !.pc = "compress", !.job = Len(s1.jobs)])

\* loadQualityWithPriority that tests isOutdated() before it caches the result
PriorityAfterCompressChecksFirst(s, t) ==
    IF s.jobs[t.job].state = "resolved"
    THEN IF IsOutdated(s, t)
         THEN EndTask(s, t)
         ELSE Suspend(StoreResult(s, t.key, s.jobs[t.job].file, t.job), t,
                      [t EXCEPT !.pc = "load"])
    ELSE PriorityFailed(s, t)

\* loadQualityWithPriority after await this.worker.compress(...)
PriorityAfterCompress(s, t) ==
    IF s.jobs[t.job].state = "resolved"
    THEN LET s1 == StoreResult(s, t.key, s.jobs[t.job].file, t.job)
         IN  IF IsOutdated(s1, t)
             THEN EndTask(s1, t)
             ELSE Suspend(s1, t, [t EXCEPT !.pc = "load"])
    ELSE PriorityFailed(s, t)

\* loadQualityWithPriority after await this.renderer.load(url)
PriorityAfterLoad(s, t, ok) ==
    IF ~ok THEN PriorityFailed(s, t)
    ELSE LET s1 == Present(s, t, "render")
         IN  IF IsOutdated(s1, t)
             THEN EndTask(s1, t)
             ELSE PreloadAllQualities(
                      [EndTask(UnlockQuality(Present(s1, t, "unlock"), t.key), t)
                          EXCEPT !.preloadPaused = FALSE], t.tid)

\* showCachedPreview(cacheKey) up to its await
ShowCachedPreview(s, k) ==
    Spawn(s, s.nActions, [NoTask EXCEPT !.type = "cached", !.pc = "load",
                            !.req = s.previewRequestId, !.key = k,
                            !.file = CacheGet(s, k).file, !.job = CacheGet(s, k).job])

\* showCachedPreview after await this.renderer.load(cached.url)
CachedAfterLoad(s, t, ok) ==
    LET s1 == IF ok THEN Present(Present(s, t, "render"), t, "size") ELSE s
    IN  PreloadAllQualities([EndTask(s1, t) EXCEPT !.preloadPaused = FALSE], t.tid)

\* handleQualityChange(), after the click handler set this.quality
HandleQualityChange(s, q) ==
    LET s1 == Bump([s EXCEPT !.quality = q, !.preloadPaused = TRUE])
    IN  IF CacheHas(s1, q) THEN ShowCachedPreview(s1, q)
        ELSE LoadQualityWithPriority(s1)

\* handleFile(event) with a valid file, up to await Utils.delay(100)
HandleFile(s) ==
    LET f == s.fileSeq + 1
        s1 == WorkerReset([Bump(s) EXCEPT !.preloadPaused = FALSE,
                                          !.pendingQualities = {},
                                          !.isPreloading = FALSE])
        s2 == LockAllQualities(CacheClear([s1 EXCEPT !.file = f, !.fileSeq = f]))
    IN  Spawn([s2 EXCEPT !.quality = "original", !.uiReady = FALSE], s.nActions,
              [NoTask EXCEPT !.type = "handleFile", !.pc = "delay100",
                             !.req = s1.previewRequestId, !.key = "original",
                             !.file = f, !.ms = 100])

\* handleFile after await Utils.delay(100)
HandleFileAfterDelay100(s, t) ==
    Suspend(StoreResult(s, "original", t.file, 0), t, [t EXCEPT !.pc = "load", !.ms = 0])

\* handleFile after await this.renderer.load(originalUrl)
HandleFileAfterLoad(s, t, ok) ==
    IF ~ok THEN EndTask(s, t)
    ELSE Suspend(Present(Present(s, t, "render"), t, "size"),
                 t, [t EXCEPT !.pc = "delay200", !.ms = 200])

\* handleFile after await Utils.delay(200)
HandleFileAfterDelay200(s, t) ==
    PreloadAllQualities(EndTask([s EXCEPT !.uiReady = TRUE], t), t.tid)

\* reset() without this.previewRequestId++
CompressorResetNoBump(s) ==
    LET s1 == CacheClear([s EXCEPT !.preloadPaused = FALSE,
                                   !.pendingQualities = {},
                                   !.isPreloading = FALSE])
    IN  LockAllQualities([s1 EXCEPT !.file = 0, !.quality = "original",
                                    !.uiReady = FALSE])

\* PDFCompressor.reset()
CompressorReset(s) ==
    LET s1 == CacheClear([Bump(s) EXCEPT !.preloadPaused = FALSE,
                                         !.pendingQualities = {},
                                         !.isPreloading = FALSE])
    IN  LockAllQualities([s1 EXCEPT !.file = 0, !.quality = "original",
                                    !.uiReady = FALSE])

\* The promise reactions of settled compress() promises run as microtasks, before
\* the next task of the event loop.
Awaiting(s) ==
    {t \in s.tasks : t.pc = "compress" /\ s.jobs[t.job].state \in {"resolved", "rejected"}}

RECURSIVE Microtasks(_)
Microtasks(s) ==
    IF Awaiting(s) = {} THEN s
    ELSE LET t == CHOOSE x \in Awaiting(s) : \A y \in Awaiting(s) : x.tid <= y.tid
         IN  Microtasks(IF t.type = "preload" THEN PreloadAfterCompress(s, t)
                        ELSE PriorityAfterCompress(s, t))

\* One task of the event loop ends in state s.
Task(s) == SetSt(Microtasks(s)) /\ UNCHANGED <<engineVars, procVars, callerVars>>

\* One task of the page, within the bound on its compress() calls.
PageTask(s) ==
    /\ Len(s.jobs) <= MaxJobs
    /\ Task(s)

-----------------------------------------------------------------------------
(* The tasks of the manager and of its worker *)

\* The live worker answers one of its requests; the message event runs onmessage.
WorkerResponse ==
    \E msg \in chan, status \in Statuses :
        Task(OnMessage([St EXCEPT !.chan = @ \ {msg}], msg, status))

\* The fetch of the result bytes ends; the suspended handler run goes on.
FetchDone ==
    \E j \in handlers, fetched \in BOOLEAN :
        Task(OnMessageResume(St, j, fetched))

\* A message event whose messageId matches no entry of pendingRequests.
UnknownIds == {0, messageId + 1}

UnknownResponse ==
    \E m \in UnknownIds, status \in Statuses :
        /\ worker # 0
        /\ PendingGet(St, m) = {}
        /\ Task(OnMessage(St, [messageId |-> m, job |-> 0], status))

(* Class-level callers of CompressionWorker: init(), compress() on an       *)
(* initialised manager, reset().                                            *)
CallInit ==
    /\ worker = 0
    /\ workerSeq < MaxWorkers
    /\ Task(WorkerInit(St))

CallCompress ==
    \E q \in CallerQualities :
        /\ worker # 0
        /\ Len(jobs) < MaxCalls
        /\ Task(Compress(St, q, 0))

CallReset ==
    /\ workerSeq > 0
    /\ Task(WorkerReset(St))

(* The user *)
UserFile ==
    /\ nActions < MaxActions
    /\ \E valid \in BOOLEAN :
        IF valid
        THEN PageTask(HandleFile([St EXCEPT !.nActions = @ + 1]))
        ELSE PageTask(St)     \* validateFile fails: handleFile returns

UserQuality ==
    /\ nActions < MaxActions
    /\ file # 0
    /\ uiReady
    /\ \E q \in UserQualities \ locked :
        PageTask(HandleQualityChange([St EXCEPT !.nActions = @ + 1], q))

UserReset ==
    /\ nActions < MaxActions
    /\ PageTask(CompressorReset([St EXCEPT !.nActions = @ + 1]))

(* The awaits of PDFCompressor end *)

\* A timer fires no later than a younger timer of the same or a longer delay.
TaskOf(n) == CHOOSE t \in tasks : t.tid = n
CanFire(i) == \A k \in 1..(i - 1) : TaskOf(timers[k]).ms > TaskOf(timers[i]).ms
RemoveAt(seq, i) == SubSeq(seq, 1, i - 1) \o SubSeq(seq, i + 1, Len(seq))

TimerFires ==
    \E i \in 1..Len(timers) :
        /\ CanFire(i)
        /\ LET t == TaskOf(timers[i])
               s == [St EXCEPT !.timers = RemoveAt(@, i)]
           IN  PageTask(CASE t.pc = "delay100" -> HandleFileAfterDelay100(s, t)
                          [] t.pc = "delay200" -> HandleFileAfterDelay200(s, t)
                          [] OTHER -> PreloadLoop(s, t, t.idx + 1))

BufferRead ==
    \E t \in tasks, ok \in BOOLEAN :
        /\ t.pc = "buffer"
        /\ PageTask(IF t.type = "preload"
                    THEN IF ok THEN PreloadLoop(St, t, 1) ELSE EndTask(St, t)
                    ELSE PriorityAfterBuffer(St, t, ok))

RendererLoaded ==
    \E t \in tasks, ok \in BOOLEAN :
        /\ t.pc = "load"
        /\ PageTask(CASE t.type = "cached" -> CachedAfterLoad(St, t, ok)
                      [] t.type = "priority" -> PriorityAfterLoad(St, t, ok)
                      [] OTHER -> HandleFileAfterLoad(St, t, ok))

-----------------------------------------------------------------------------
(* GhostscriptEngine (src/compress-worker.js:8-92) under callers that call    *)
(* init() and then, when it returned, compress(), one call at a time.         *)

\* if (forceReinit || !this.module || this.compressionCount >= 3)
ReinitThreshold == 3
\* this.compressionCount = 999
FailedSentinel == 999

NeedsInit(force) == force \/ module = 0 \/ compressionCount >= ReinitThreshold

\* init(forceReinit) with compressionCount > 3 for >= 3
EngineInitAfterFour(force, loaded) ==
    /\ enginePc = "idle"
    /\ invocations < MaxInvocations
    /\ invocations' = invocations + 1
    /\ lastForce' = force
    /\ failed' = failed
    /\ IF force \/ module = 0 \/ compressionCount > ReinitThreshold
       THEN IF loaded
            THEN /\ module' = moduleSeq + 1
                 /\ moduleSeq' = moduleSeq + 1
                 /\ compressionCount' = 0
                 /\ served' = 0
                 /\ enginePc' = "ready"
                 /\ clean' = (clean /\ ~force)
                 /\ staged' = {}      \* the new module has a file system of its own
            ELSE /\ clean' = FALSE
                 /\ UNCHANGED <<module, moduleSeq, compressionCount, served, enginePc,
                                staged>>
       ELSE /\ enginePc' = "ready"
            /\ UNCHANGED <<module, moduleSeq, compressionCount, served, clean, staged>>
    /\ UNCHANGED pageVars

\* init(forceReinit); loaded: the promise of loadWASM() is fulfilled
EngineInit(force, loaded) ==
    /\ enginePc = "idle"
    /\ invocations < MaxInvocations
    /\ invocations' = invocations + 1
    /\ lastForce' = force
    /\ failed' = failed
    /\ IF NeedsInit(force)
       THEN IF loaded
            THEN /\ module' = moduleSeq + 1
                 /\ moduleSeq' = moduleSeq + 1
                 /\ compressionCount' = 0
                 /\ served' = 0
                 /\ enginePc' = "ready"
                 /\ clean' = (clean /\ ~force)
                 /\ staged' = {}      \* the new module has a file system of its own
            ELSE \* await loadWASM() throws: no assignment is made
                 /\ clean' = FALSE
                 /\ UNCHANGED <<module, moduleSeq, compressionCount, served, enginePc,
                                staged>>
       ELSE /\ enginePc' = "ready"
            /\ UNCHANGED <<module, moduleSeq, compressionCount, served, clean, staged>>
    /\ UNCHANGED pageVars

\* this.inputFile, this.outputFile
InputFile == "input.pdf"
OutputFile == "output.pdf"

\* What a compress() call meets: "ok"; "write": FS.writeFile of the input
\* throws (line 70, before the try); "run": callMain or readFile throws.
CompressOutcomes == {"ok", "write", "run"}

\* compress(pdfData, quality)
EngineCompress(outcome) ==
    /\ enginePc = "ready"
    /\ enginePc' = "idle"
    /\ failed' = (outcome # "ok")
    /\ CASE outcome = "ok" ->     \* both files are unlinked after readFile
              /\ compressionCount' = compressionCount + 1
              /\ served' = served + 1
              /\ clean' = clean
              /\ staged' = {}
         [] outcome = "run" ->    \* the catch unlinks both files
              /\ compressionCount' = FailedSentinel
              /\ clean' = FALSE
              /\ served' = served
              /\ staged' = {}
         [] OTHER ->     \* the throw leaves compress() before any assignment,
                         \* with the input file created or not
              /\ compressionCount' = compressionCount
              /\ clean' = FALSE
              /\ served' = served
              /\ staged' \in {staged, staged \cup {InputFile}}
    /\ UNCHANGED <<module, moduleSeq, invocations, lastForce>>
    /\ UNCHANGED pageVars

CallEngineInit ==
    \E force, loaded \in BOOLEAN : EngineInit(force, loaded) /\ UNCHANGED <<procVars, callerVars>>
CallEngineCompress ==
    \E outcome \in CompressOutcomes : EngineCompress(outcome) /\ UNCHANGED <<procVars, callerVars>>

-----------------------------------------------------------------------------
(* PDFCompressionWorker.process (src/compress-worker.js:131-160): the worker  *)
(* of a manager that is never reset, so that it runs one process() at a time. *)

NoProc ==
    [pc |-> "none", messageId |-> 0, job |-> 0, quality |-> "none", inSize |-> 0,
     outSize |-> 0, status |-> "none", size |-> 0, bytes |-> "none"]

\* A resolution in DPI, or the word 'original' (dpi 0)
Dpi(n) == [original |-> FALSE, dpi |-> n]
Original == [original |-> TRUE, dpi |-> 0]

\* parseQuality whose qualityMap has no 'original' entry
ParseQualityNoOriginal(q) ==
    CASE q = "low" -> Dpi(100)
      [] q = "medium" -> Dpi(150)
      [] q = "good" -> Dpi(200)
      [] q = "high" -> Dpi(250)
      [] q = "best" -> Dpi(300)
      [] OTHER -> Dpi(150)

\* parseQuality(quality, customDPI)
ParseQuality(q) ==
    CASE q = "low" -> Dpi(100)
      [] q = "medium" -> Dpi(150)
      [] q = "good" -> Dpi(200)
      [] q = "high" -> Dpi(250)
      [] q = "best" -> Dpi(300)
      [] q = "original" -> Original
      [] OTHER -> Dpi(150)

\* process() with the size test compressedSize > buffer.byteLength
EffectiveWhenLarger(inSize, out) ==
    IF out > inSize
    THEN [size |-> inSize, bytes |-> "input"]
    ELSE [size |-> out, bytes |-> "output"]

\* The bytes process() answers with after a compression of an input of inSize
\* bytes gave out bytes.
Effective(inSize, out) ==
    IF out >= inSize
    THEN [size |-> inSize, bytes |-> "input"]
    ELSE [size |-> out, bytes |-> "output"]

\* The answer of the run p: status and, on success, the bytes.
Answer(p, status, size, bytes) ==
    [p EXCEPT !.pc = "post", !.status = status, !.size = size, !.bytes = bytes]

\* process(): the message event, fetchPDF and, for 'original', the answer
ProcessFetch ==
    \E msg \in chan, n \in 0..MaxBytes, fetched \in BOOLEAN :
        /\ proc.pc = "none"
        /\ LET p == [NoProc EXCEPT !.messageId = msg.messageId, !.job = msg.job,
                                   !.quality = jobs[msg.job].quality, !.inSize = n]
           IN  proc' = IF ~fetched THEN Answer(p, "error", 0, "none")
                       ELSE IF ParseQuality(p.quality) = Original
                            THEN Answer(p, "success", n, "input")
                            ELSE [p EXCEPT !.pc = "init"]
        /\ UNCHANGED <<pageVars, engineVars, callerVars>>

\* process(): await this.engine.init()
ProcessInit ==
    /\ proc.pc = "init"
    /\ \E loaded \in BOOLEAN : EngineInit(FALSE, loaded)
    /\ proc' = IF enginePc' = "ready" THEN [proc EXCEPT !.pc = "compress"]
                ELSE Answer(proc, "error", 0, "none")
    /\ UNCHANGED callerVars

\* process(): this.engine.compress(buffer, parsedQuality) and the size test
ProcessCompress ==
    /\ proc.pc = "compress"
    /\ \E outcome \in CompressOutcomes, out \in 0..(MaxBytes + 1) :
        /\ EngineCompress(outcome)
        /\ proc' = IF outcome = "ok"
                    THEN Answer([proc EXCEPT !.outSize = out], "success",
                                Effective(proc.inSize, out).size,
                                Effective(proc.inSize, out).bytes)
                    ELSE Answer(proc, "error", 0, "none")
    /\ UNCHANGED callerVars

\* self.postMessage(...) and the message event of the manager it causes
ProcessPost ==
    /\ proc.pc = "post"
    /\ LET msg == [messageId |-> proc.messageId, job |-> proc.job]
       IN  /\ msg \in chan
           /\ SetSt(Microtasks(OnMessage([St EXCEPT !.chan = @ \ {msg}], msg, proc.status)))
    /\ proc' = NoProc
    /\ UNCHANGED <<engineVars, callerVars>>

-----------------------------------------------------------------------------
(* PreviewCache (src/pdfapi.js:199-221) under a class-level caller, who makes *)
(* an object URL for each blob it stores, as the callers in PDFCompressor do. *)

\* What get(key) returns for a key without entry: undefined
NoEntry == [key |-> "none", file |-> 0, job |-> 0]

\* op, key: the latest call; got, has: what get(key) and has(key) returned;
\* written[k]: the URL of the latest set(k, ...) since the latest clear(), 0 for
\* none; seq: URLs created so far; held: entries held when clear() was called.
NoProbe ==
    [op |-> "none", key |-> "none", got |-> NoEntry, has |-> FALSE,
     written |-> [k \in CallerQualities |-> 0], seq |-> 0, held |-> 0]

\* this.cache.set(key, blob, URL.createObjectURL(blob))
CallCacheSet ==
    \E k \in CallerQualities :
        /\ probe.seq < MaxHandles
        /\ SetSt(StoreResult(St, k, 0, probe.seq + 1))
        /\ probe' = [probe EXCEPT !.op = "set", !.key = k, !.seq = @ + 1,
                                  !.written[k] = probe.seq + 1]
        /\ UNCHANGED <<engineVars, procVars>>

\* this.cache.has(key), this.cache.get(key)
CallCacheGet ==
    \E k \in CallerQualities :
        /\ probe' = [probe EXCEPT !.op = "get", !.key = k,
                                  !.has = CacheHas(St, k),
                                  !.got = IF CacheHas(St, k) THEN CacheGet(St, k)
                                          ELSE NoEntry]
        /\ UNCHANGED <<pageVars, engineVars, procVars>>

\* this.cache.clear()
CallCacheClear ==
    /\ SetSt(CacheClear(St))
    /\ probe' = [probe EXCEPT !.op = "clear", !.key = "none",
                              !.written = [k \in CallerQualities |-> 0],
                              !.held = Cardinality(cache)]
    /\ UNCHANGED <<engineVars, procVars>>

-----------------------------------------------------------------------------
Init ==
    /\ worker = 0
    /\ messageId = 0
    /\ pendingRequests = {}
    /\ isProcessing = FALSE
    /\ queue = <<>>
    /\ workerSeq = 0
    /\ chan = {}
    /\ handlers = {}
    /\ jobs = <<>>
    /\ posted = <<>>
    /\ file = 0
    /\ quality = "original"
    /\ previewRequestId = 0
    /\ preloadPaused = FALSE
    /\ pendingQualities = {}
    /\ isPreloading = FALSE
    /\ cache = {}
    /\ urls = {}
    /\ fileSeq = 0
    /\ locked = {}
    /\ uiReady = FALSE
    /\ tasks = {}
    /\ timers = <<>>
    /\ shown = [by |-> "none", kind |-> "none", key |-> "none", stale |-> FALSE]
    /\ notice = NoNotice
    /\ nActions = 0
    /\ module = 0
    /\ compressionCount = 0
    /\ enginePc = "idle"
    /\ moduleSeq = 0
    /\ invocations = 0
    /\ served = 0
    /\ lastForce = FALSE
    /\ clean = TRUE
    /\ failed = FALSE
    /\ staged = {}
    /\ proc = NoProc
    /\ probe = NoProbe

\* CompressionWorker under every caller that initialises it before compress()
QNext == CallInit \/ CallCompress \/ CallReset \/ WorkerResponse \/ FetchDone

SpecQ == Init /\ [][QNext]_vars

\* The same, with responses that carry a messageId no request is pending under
UNext == QNext \/ UnknownResponse

SpecU == Init /\ [][UNext]_vars

\* The page: PDFCompressor, its CompressionWorker and the worker
Next ==
    \/ UserFile \/ UserQuality \/ UserReset
    \/ TimerFires \/ BufferRead \/ RendererLoaded
    \/ WorkerResponse \/ FetchDone

Spec == Init /\ [][Next]_vars

\* The page on an event loop that runs every continuation that is due: a timer
\* that expired, a read or a render that ended, a message of the worker, the
\* end of a fetch. The user is free to do nothing.
SpecLive ==
    /\ Init /\ [][Next]_vars
    /\ WF_vars(TimerFires) /\ WF_vars(BufferRead) /\ WF_vars(RendererLoaded)
    /\ WF_vars(WorkerResponse) /\ WF_vars(FetchDone)

\* GhostscriptEngine under its callers
ENext == CallEngineInit \/ CallEngineCompress

SpecE == Init /\ [][ENext]_vars

\* CompressionWorker, never reset, with its worker and the worker's engine
WNext ==
    \/ CallInit \/ CallCompress \/ FetchDone
    \/ ProcessFetch \/ ProcessInit \/ ProcessCompress \/ ProcessPost

SpecW == Init /\ [][WNext]_vars

\* The same, with a worker that answers every message it receives (each step
\* of process() is taken) and fetches of the result that end.
SpecWLive ==
    /\ Init /\ [][WNext]_vars
    /\ WF_vars(ProcessFetch) /\ WF_vars(ProcessInit) /\ WF_vars(ProcessCompress)
    /\ WF_vars(ProcessPost) /\ WF_vars(FetchDone)

\* PreviewCache under class-level callers
CNext == CallCacheSet \/ CallCacheGet \/ CallCacheClear

SpecC == Init /\ [][CNext]_vars

-----------------------------------------------------------------------------
(* Properties of the job queue (CompressionWorker) *)

JobIds == 1..Len(jobs)
Settled == {"resolved", "rejected"}

\* The jobs posted to worker w whose response has not been fully handled.
InFlight(w) ==
    {j \in JobIds : jobs[j].wid = w /\ jobs[j].state \in {"posted", "handling"}}

\* C1: at most one job is in flight against the live worker at any instant: no
\* job is posted while an earlier job of that worker still awaits the end of its
\* response handling.
C1_OneInFlight == worker # 0 => Cardinality(InFlight(worker)) <= 1

\* C2: jobs are posted in the order of the compress() calls; a call made while
\* no job is in flight is posted at once, a call made while one is in flight
\* waits in the queue until every job submitted before it has settled (or was
\* abandoned by a reset); the queue keeps the call order.
C2_Fifo ==
    /\ \A i, k \in 1..Len(posted) : i < k => posted[i] < posted[k]
    /\ \A i, k \in 1..Len(queue) : i < k => queue[i] < queue[k]
    /\ \A j \in JobIds :
          (jobs[j].state \in {"posted", "handling"} /\ ~jobs[j].abandoned)
              => \A i \in 1..(j - 1) : jobs[i].state \in Settled \/ jobs[i].abandoned
    /\ \A j \in JobIds :
          (jobs[j].state = "posted" /\ ~jobs[j].viaQueue /\ ~jobs[j].abandoned)
              => InFlight(jobs[j].wid) = {j}
    /\ queue # <<>> => InFlight(worker) # {}

\* C3: the handler run that settles a job (resolve after the fetch, reject after
\* an error response or a failed fetch) posts the head of the queue in the same
\* run, and the manager is never left busy with jobs queued and nothing that
\* will call processNext.
C3_SettleStartsNext ==
    /\ [](isProcessing /\ queue # <<>> => chan # {} \/ handlers # {})
    /\ [][\A j \in JobIds :
            (jobs[j].state \notin Settled /\ jobs'[j].state \in Settled /\ queue # <<>>)
                => /\ queue' = Tail(queue)
                   /\ posted' = Append(posted, Head(queue))
                   /\ jobs'[Head(queue)].state = "posted"
                   /\ isProcessing']_vars

\* C3's case: a job was rejected and the job queued behind it is now posted.
C3_Witness ==
    \E j, k \in JobIds :
        /\ jobs[j].state = "rejected" /\ ~jobs[j].abandoned
        /\ jobs[k].viaQueue /\ jobs[k].state = "posted" /\ jobs[k].wid = jobs[j].wid
        /\ k = j + 1

\* C4: a job that a reset() found queued or in flight is never resolved or
\* rejected afterwards.
C4_AbandonedNeverSettle ==
    \A j \in JobIds : jobs[j].abandoned => jobs[j].state \notin Settled

\* C5: from reset() until the next post the manager is empty and idle (no
\* worker until init(), nothing pending, nothing queued, isProcessing false), so
\* the first compress() after it is posted at once, never queued.
C5_ResetLeavesIdle ==
    /\ worker = 0 => messageId = 0
    /\ messageId = 0 => ~isProcessing /\ queue = <<>> /\ pendingRequests = {} /\ chan = {}
    /\ \A j \in JobIds : jobs[j].mid = 1 => ~jobs[j].viaQueue

\* C5's case: after a reset() that found a job in flight, the first compress()
\* on the new worker is in flight.
C5_Witness ==
    \E i, j \in JobIds :
        /\ jobs[i].abandoned
        /\ jobs[j].wid = worker /\ jobs[j].wid > jobs[i].wid
        /\ jobs[j].mid = 1 /\ jobs[j].state = "posted"

\* C6 as claimed: no two jobs of the manager ever carry the same messageId, and
\* a response settles only the job whose request produced it.
C6_IdsNeverReused ==
    /\ \A i, j \in JobIds : (i # j /\ jobs[i].mid # 0) => jobs[i].mid # jobs[j].mid
    /\ \A j \in JobIds : jobs[j].servedFor # 0 => jobs[j].servedFor = j

\* C6 as amended: no two jobs posted to the same Worker object carry the same
\* messageId (reset() restarts the counter at 0), and a response settles only
\* the job whose request produced it.
C6_RoutedById ==
    /\ \A i, j \in JobIds :
          (i # j /\ jobs[i].mid # 0 /\ jobs[i].wid = jobs[j].wid) => jobs[i].mid # jobs[j].mid
    /\ \A j \in JobIds : jobs[j].servedFor # 0 => jobs[j].servedFor = j

\* C6's case: two jobs with the same messageId, one on each side of a reset(),
\* each settled by a response.
C6_Witness ==
    \E i, j \in JobIds :
        /\ i # j /\ jobs[i].mid = jobs[j].mid /\ jobs[i].wid # jobs[j].wid
        /\ jobs[i].servedFor = i /\ jobs[j].servedFor = j
        /\ jobs[i].state \in Settled /\ jobs[j].state \in Settled

\* C7: a response with an unknown messageId settles no promise, leaves
\* pendingRequests as it is and posts nothing, and it does not leave jobs queued
\* with nothing in flight.
C7_UnknownIdIsNoOp ==
    [][UnknownResponse =>
          /\ pendingRequests' = pendingRequests
          /\ posted' = posted
          /\ jobs' = jobs
          /\ (queue' # <<>> => chan' # {} \/ handlers' # {})]_vars

-----------------------------------------------------------------------------
(* Properties of the generation counter (previewRequestId) *)

\* The suspended functions that started with the generation t.req.
Captured == {t \in tasks : t.type # "preload"}

\* C8: for a generation captured from previewRequestId, isOutdated() is true
\* exactly when previewRequestId was incremented at least once since the capture.
C8_StaleIffBumped == \A t \in Captured : IsOutdated(St, t) <=> t.bumps > 0

\* C8's case: a loadQualityWithPriority whose generation was incremented over.
C8_Witness ==
    \E t \in tasks : t.type = "priority" /\ t.bumps > 0 /\ t.req # previewRequestId

\* C9: previewRequestId never decreases, and every user event (quality click,
\* valid file, reset) increments it before anything else it does: every
\* generation captured before the event is stale after it, and what the event
\* starts carries the new generation; the event itself presents nothing.
C9_BumpFirst ==
    [][/\ previewRequestId' >= previewRequestId
       /\ nActions' # nActions =>
             /\ previewRequestId' = previewRequestId + 1
             /\ shown' = shown
             /\ \A t \in tasks' :
                   t.type # "preload" =>
                      IF t.tid = nActions'
                      THEN t.req = previewRequestId' /\ t.bumps = 0
                      ELSE t.req # previewRequestId' /\ t.bumps > 0]_vars

\* C9's case: two user events later, a handleFile started before them is still
\* suspended.
C9_Witness ==
    \E t \in tasks : t.type = "handleFile" /\ t.bumps = 2 /\ previewRequestId = t.req + 2

\* C10: no result is rendered, and no preview size or quality hint written, by
\* showCachedPreview or loadQualityWithPriority on behalf of a request whose
\* generation is stale.
C10_NoStalePresentation == shown.by \in {"cached", "priority"} => ~shown.stale

-----------------------------------------------------------------------------
(* Properties of the cache and of the preload loop *)

\* C11: when the compression of a loadQualityWithPriority succeeds, its result
\* is written to the cache under its quality key, whether or not its
\* generation is stale; a stale one ends there, presenting nothing, and a
\* current one goes on to render.
C11_StaleResultStillCached ==
    [][\A t \in tasks :
         (/\ t.type = "priority" /\ t.pc = "compress"
          /\ jobs[t.job].state # "resolved" /\ jobs'[t.job].state = "resolved")
         => /\ \E e \in cache' : e.key = t.key /\ e.job = t.job
            /\ IF t.req # previewRequestId
               THEN shown' = shown /\ ~\E u \in tasks' : u.tid = t.tid
               ELSE \E u \in tasks' : u.tid = t.tid /\ u.pc = "load"]_vars

\* C11's case: after reset() emptied the cache, the result of a priority
\* compression that reset() made stale is in the cache.
C11_Witness ==
    /\ file = 0
    /\ \E e \in cache : e.job # 0 /\ jobs[e.job].by.type = "priority"

\* C12: every entry of the cache was derived from the file that is active now;
\* after handleFile(newFile) or reset() no result of an earlier file is in the
\* cache.
C12_CacheOfCurrentFile == \A e \in cache : e.file = file

\* The jobs submitted to the queue manager and neither settled nor dropped by
\* a reset of the manager.
Unfinished ==
    {j \in JobIds : jobs[j].state \in {"queued", "posted", "handling"} /\ ~jobs[j].abandoned}

\* C13: while a job for a quality key is submitted and not yet settled, no
\* second job for the same key of the same file is submitted, neither by the
\* preload loop nor by loadQualityWithPriority.
C13_NoDuplicateKey ==
    \A i, j \in Unfinished :
        (jobs[i].quality = jobs[j].quality /\ jobs[i].file = jobs[j].file) => i = j

\* The preload loops that have neither returned nor lost their job to a reset
\* of the manager.
ActiveLoops ==
    {t \in tasks : t.type = "preload" /\ ~(t.pc = "compress" /\ jobs[t.job].abandoned)}

\* C14: at most one preload loop is active at any time, also across handleFile
\* and reset, which clear isPreloading, and across the exit of an older loop.
C14_OneLoop == Cardinality(ActiveLoops) <= 1

\* C15: when the preload loop submits a job, its level is neither in the cache
\* nor in pendingQualities at that moment, and every level it passed over on
\* the way from its last position was in the cache or in pendingQualities.
C15_SkipsCachedAndPending ==
    [][(Len(jobs') > Len(jobs) /\ jobs'[Len(jobs')].by.type = "preload")
       => \E t \in tasks, u \in tasks' :
            /\ t.type = "preload" /\ u.type = "preload" /\ u.tid = t.tid
            /\ u.pc = "compress" /\ u.job = Len(jobs')
            /\ u.key = PreloadQualities[u.idx]
            /\ ~CacheHas(St, u.key) /\ u.key \notin pendingQualities
            /\ LET from == IF t.pc = "buffer" THEN 1 ELSE t.idx + 1
               IN  /\ u.idx >= from
                   /\ \A k \in from..(u.idx - 1) :
                         \/ CacheHas(St, PreloadQualities[k])
                         \/ PreloadQualities[k] \in pendingQualities]_vars

\* C15's case: a loop that never submitted the first level waits for a later
\* level, and the first level is in the cache.
C15_Witness ==
    \E t \in tasks :
        /\ t.type = "preload" /\ t.pc = "compress" /\ t.idx >= 2
        /\ \E e \in cache : e.key = PreloadQualities[1] /\ e.file = t.file
        /\ ~\E j \in JobIds : /\ jobs[j].by = [type |-> "preload", tid |-> t.tid]
                               /\ jobs[j].quality = PreloadQualities[1]

\* C16: a loop started again after a pause submits only levels that are not in
\* the cache, in list order, and never a level whose job, of either call
\* site, is still unsettled.
C16_ResumeSubmitsRemaining ==
    [][(Len(jobs') > Len(jobs) /\ jobs'[Len(jobs')].by.type = "preload")
       => LET j == Len(jobs')
          IN  /\ ~CacheHas(St, jobs'[j].quality)
              /\ ~\E i \in Unfinished : /\ jobs[i].quality = jobs'[j].quality
                                        /\ jobs[i].file = jobs'[j].file
              /\ \A t \in tasks, u \in tasks' :
                    (/\ t.type = "preload" /\ u.type = "preload" /\ u.tid = t.tid
                     /\ u.job = j /\ t.pc # "buffer")
                    => u.idx > t.idx]_vars

\* C17: the preload loop submits a job only while preloadPaused is false and
\* its file is the active one; a loop that reaches the test at the head of the
\* for loop, or the test after a compression that succeeded, with preloadPaused
\* set or with another file active, returns without submitting, with
\* isPreloading false and every level that is not cached unlocked.
C17_StopsOnPauseOrFileChange ==
    [][/\ (Len(jobs') > Len(jobs) /\ jobs'[Len(jobs')].by.type = "preload")
          => /\ ~preloadPaused
             /\ \E u \in tasks' : u.job = Len(jobs') /\ u.file = file
       /\ \A t \in tasks :
            (/\ t.type = "preload"
             /\ preloadPaused \/ file # t.file
             /\ \/ t.pc = "delay" /\ t \notin tasks'
                \/ /\ t.pc = "compress" /\ jobs[t.job].state \notin Settled
                   /\ jobs'[t.job].state = "resolved")
            => /\ ~\E u \in tasks' : u.type = "preload" /\ u.tid = t.tid
               /\ Len(jobs') = Len(jobs)
               /\ isPreloading' = FALSE
               /\ \A k \in 1..Len(PreloadQualities) :
                     \/ \E e \in cache' : e.key = PreloadQualities[k]
                     \/ PreloadQualities[k] \notin locked']_vars

\* C17's case: a compression of the loop succeeded while preloadPaused was set;
\* the loop has returned, its level is not cached and is unlocked.
C17_Witness ==
    /\ preloadPaused /\ ~isPreloading
    /\ ~\E t \in tasks : t.type = "preload"
    /\ \E j \in JobIds :
          /\ jobs[j].by.type = "preload" /\ jobs[j].state = "resolved"
          /\ jobs[j].file = file /\ ~jobs[j].abandoned
          /\ ~CacheHas(St, jobs[j].quality) /\ jobs[j].quality \notin locked

\* The levels after level i that the loop finds neither cached nor pending.
Remaining(i) ==
    {k \in (i + 1)..Len(PreloadQualities) :
        ~CacheHas(St, PreloadQualities[k]) /\ PreloadQualities[k] \notin pendingQualities}

\* C18: when the job of a level fails, the loop goes on: in the same run the key
\* leaves pendingQualities, the level is unlocked and the loop waits 200 ms
\* without submitting; after the wait, unless paused or on another file, it
\* submits the next level that is neither cached nor pending, never the failed
\* one again, or returns when there is none.
C18_FailureDoesNotEndLoop ==
    [][\A t \in tasks :
         /\ (/\ t.type = "preload" /\ t.pc = "compress"
             /\ jobs[t.job].state \notin Settled /\ jobs'[t.job].state = "rejected")
            => /\ \E u \in tasks' : /\ u.type = "preload" /\ u.tid = t.tid
                                     /\ u.pc = "delay" /\ u.ms = 200 /\ u.idx = t.idx
               /\ t.key \notin pendingQualities'
               /\ t.key \notin locked'
               /\ Len(jobs') = Len(jobs)
         /\ (/\ t.type = "preload" /\ t.pc = "delay" /\ t.ms = 200 /\ t \notin tasks'
             /\ ~preloadPaused /\ file = t.file)
            => IF Remaining(t.idx) = {}
               THEN /\ ~\E u \in tasks' : u.type = "preload" /\ u.tid = t.tid
                    /\ isPreloading' = FALSE
               ELSE \E u \in tasks' :
                      /\ u.type = "preload" /\ u.tid = t.tid /\ u.pc = "compress"
                      /\ u.idx \in Remaining(t.idx)
                      /\ \A k \in Remaining(t.idx) : u.idx <= k
                      /\ u.job = Len(jobs') /\ Len(jobs') = Len(jobs) + 1]_vars

\* C18's case: a loop whose own job failed waits for the job of a later level.
C18_Witness ==
    \E t \in tasks :
        /\ t.type = "preload" /\ t.pc = "compress"
        /\ \E j \in JobIds :
              /\ jobs[j].by = [type |-> "preload", tid |-> t.tid]
              /\ jobs[j].state = "rejected" /\ ~jobs[j].abandoned
              /\ j < t.job /\ jobs[j].quality # t.key

\* C19: the key of a preload job is in pendingQualities from before the job is
\* submitted, and its result is in the cache before the key leaves
\* pendingQualities: in every state a level of the active file that the loop
\* submitted and that is not settled is pending, and one that was computed is
\* pending or cached.
C19_ComputedIsPendingOrCached ==
    \A j \in JobIds :
        (jobs[j].by.type = "preload" /\ jobs[j].file = file /\ ~jobs[j].abandoned)
        => /\ j \in Unfinished => jobs[j].quality \in pendingQualities
           /\ jobs[j].state = "resolved" =>
                 jobs[j].quality \in pendingQualities \/ CacheHas(St, jobs[j].quality)

\* C26: when the job of a preload loop succeeds while the file of the loop is
\* still the active file, its result is written to the cache under its quality
\* key in the same run, whether or not preloadPaused was set while the job was
\* in flight.
C26_PreloadResultCached ==
    [][\A t \in tasks :
         (/\ t.type = "preload" /\ t.pc = "compress" /\ t.file = file
          /\ jobs[t.job].state # "resolved" /\ jobs'[t.job].state = "resolved")
         => \E e \in cache' : e.key = t.key /\ e.job = t.job]_vars

\* Every request the user made by a click on a quality has finished, and a
\* file is active.
ForegroundFinished ==
    /\ file # 0
    /\ \A t \in tasks : t.type \notin {"priority", "cached"}

\* C27 (event loop that runs every due continuation): a pause is followed by
\* a resume: when preloadPaused is set and the requests of the user have
\* finished, by a cache hit, a computed result or a failure, preloadPaused is
\* cleared at some later time.
C27_PauseThenResume ==
    [](preloadPaused /\ ForegroundFinished => <>(~preloadPaused))

\* The latest request of the user is a loadQualityWithPriority whose job is
\* submitted and not settled.
OutstandingPriority ==
    \E t \in tasks : /\ t.type = "priority" /\ t.pc = "compress"
                      /\ t.req = previewRequestId
                      /\ t.job \in Unfinished

\* C28: while the job of the latest priority request is submitted and not
\* settled, preloadPaused stays set, whatever older continuation runs, and the
\* preload loop submits no job.
C28_NoPreloadWhilePriorityOutstanding ==
    /\ [](OutstandingPriority => preloadPaused)
    /\ [][OutstandingPriority
            => \A j \in (Len(jobs) + 1)..Len(jobs') : jobs'[j].by.type # "preload"]_vars

\* C34: while a file is active, isPreloading is true only while a preload loop
\* is active: however a loop ended, a preloadAllQualities() call is not turned
\* away at its guard by a loop that no longer exists.
C34_GuardOnlyWhileLoopActive ==
    (file # 0 /\ isPreloading) => ActiveLoops # {}

-----------------------------------------------------------------------------
(* Properties of the engine (GhostscriptEngine) *)

\* C20: init() loads a new module exactly when there is none, forceReinit is
\* asked for, or compressionCount has reached 3, and then sets compressionCount
\* to 0; a successful compress() adds 1 to compressionCount; so no module
\* serves more than 3 successful calls, and while every call succeeds the
\* module of call n is the ((n + 2) div 3)-th one: loaded at calls 1, 4, 7, ...
C20_ReinitEveryThird ==
    /\ [](served <= ReinitThreshold)
    /\ []((clean /\ invocations > 0) =>
             /\ module = (invocations + 2) \div ReinitThreshold
             /\ compressionCount = served)
    /\ [][/\ invocations' = invocations + 1 =>
             IF NeedsInit(lastForce')
             THEN \/ /\ enginePc' = "ready"
                     /\ module' = moduleSeq + 1 /\ module' # module
                     /\ compressionCount' = 0
                  \/ /\ enginePc' = "idle"     \* loadWASM() failed
                     /\ module' = module /\ compressionCount' = compressionCount
             ELSE /\ enginePc' = "ready"
                  /\ module' = module /\ compressionCount' = compressionCount
          /\ served' = served + 1 =>
                module' = module /\ compressionCount' = compressionCount + 1]_vars

\* C20's case: the seventh of seven successful calls has loaded the third module.
C20_Witness ==
    /\ clean /\ invocations = 7 /\ enginePc = "ready"
    /\ module = 3 /\ compressionCount = 0

\* C32 (CompressionWorker, in every state): pendingRequests holds at most one
\* entry; when it holds one, isProcessing is true; and when the queue is not
\* empty, isProcessing is true.
C32_ManagerInvariants ==
    /\ Cardinality(pendingRequests) <= 1
    /\ pendingRequests # {} => isProcessing
    /\ queue # <<>> => isProcessing

\* C33 (no reset(), a worker that answers every message, fetches that end):
\* every job submitted through compress() is posted to the worker and is
\* resolved or rejected at some time, once. Stated as: again and again all the
\* jobs submitted so far are settled (so each job is, at some time after its
\* submission); a settled job was posted; and a settled job stays as it is.
C33_EveryJobSettlesOnce ==
    /\ []<>(\A j \in JobIds : jobs[j].state \in Settled)
    /\ [](\A j \in JobIds : jobs[j].state \in Settled => jobs[j].mid # 0)
    /\ [][\A j \in JobIds :
            jobs[j].state \in Settled => jobs'[j].state = jobs[j].state]_vars

\* C33's case: three jobs, the later two submitted while the first was in
\* flight, have all settled, one of them rejected.
C33_Witness ==
    /\ Len(jobs) = MaxCalls
    /\ \A j \in JobIds : jobs[j].state \in Settled
    /\ \E j \in JobIds : jobs[j].state = "rejected"
    /\ \E j \in JobIds : jobs[j].state = "resolved"
    /\ jobs[MaxCalls].viaQueue /\ jobs[MaxCalls - 1].viaQueue

\* C31: when a compress() call has returned or thrown, neither input.pdf nor
\* output.pdf is left in the file system of the module, and after a call that
\* threw, whatever threw, the next init() call loads a new module.
C31_CleanupOnAllPaths ==
    enginePc = "idle" =>
        /\ staged \cap {InputFile, OutputFile} = {}
        /\ failed => NeedsInit(FALSE)

-----------------------------------------------------------------------------
(* The worker and its engine: SpecW                                          *)

\* C21: an init() call that follows a failed compress() call and returns has
\* loaded a new module; a compress() call that fails makes the worker answer
\* with an error response; and an error response rejects the promise of the
\* job that was posted with its messageId.
C21_FailureForcesReinit ==
    /\ [][(failed /\ invocations' = invocations + 1 /\ enginePc' = "ready")
              => module' # module]_vars
    /\ [][(enginePc = "ready" /\ enginePc' = "idle" /\ failed')
              => (proc'.pc = "post" /\ proc'.status = "error")]_vars
    /\ [][(proc.pc = "post" /\ proc.status = "error" /\ proc'.pc = "none")
              => /\ jobs[proc.job].mid = proc.messageId
                 /\ jobs[proc.job].state = "posted"
                 /\ jobs'[proc.job].state = "rejected"]_vars

\* The run of process() is about to post the result of an engine invocation.
Compressed ==
    /\ proc.pc = "post"
    /\ proc.status = "success"
    /\ ParseQuality(proc.quality) # Original

\* C22: the result the worker posts for a compression is never larger than the
\* input: when the engine output is at least as large as the input the result
\* is the input bytes, with the size of the input, and otherwise it is the
\* engine output.
C22_NeverLargerThanInput ==
    Compressed =>
        /\ proc.size <= proc.inSize
        /\ IF proc.outSize >= proc.inSize
           THEN proc.bytes = "input" /\ proc.size = proc.inSize
           ELSE proc.bytes = "output" /\ proc.size = proc.outSize

C22_Witness ==
    /\ Compressed
    /\ proc.inSize > 0
    /\ proc.outSize = proc.inSize
    /\ proc.bytes = "input"

\* C30: a request for 'original' never reaches the engine: once its input is
\* fetched the worker answers with the input bytes, of the size of the input,
\* and from the message event to the answer no field of the engine changes:
\* no init() call, no compress() call, compressionCount as it was.
C30_OriginalBypassesEngine ==
    /\ [](proc.quality = "original" =>
              /\ proc.pc = "post"
              /\ proc.status = "success" =>
                    (proc.bytes = "input" /\ proc.size = proc.inSize))
    /\ [][(proc.quality = "original" \/ proc'.quality = "original")
              => UNCHANGED engineVars]_vars

C30_Witness ==
    /\ proc.quality = "original"
    /\ proc.pc = "post"
    /\ proc.status = "success"
    /\ proc.bytes = "input"
    /\ proc.inSize > 0
    /\ compressionCount = 2
    /\ invocations = 2

-----------------------------------------------------------------------------
(* PreviewCache: SpecC                                                       *)

\* C23: the cache holds at most one entry per key, and every object URL that
\* was stored in the cache and has not been revoked is the URL of an entry the
\* cache still holds: set() on a key that has an entry leaks no URL.
C23_NoLeakedHandle ==
    /\ \A e1, e2 \in cache : e1.key = e2.key => e1 = e2
    /\ \A u \in urls : \E e \in cache : Handle(e) = u

\* C24: clear() leaves the cache empty, and no URL of an entry the cache held
\* when clear() was called is left unrevoked.
C24_ClearRevokesAll ==
    [][(probe'.op = "clear" /\ probe' # probe)
          => /\ cache' = {}
             /\ \A e \in cache : Handle(e) \notin urls']_vars

C24_Witness ==
    /\ probe.op = "clear"
    /\ probe.held = 2
    /\ cache = {}
    /\ urls = {}

\* C25: get(key) and has(key) answer with the blob and the URL of the latest
\* set(key, ...) that no clear() followed, and set(key, ...) leaves the entry
\* of every other key as it was.
C25_SetThenGet ==
    /\ [][(probe'.op = "get" /\ probe.written[probe'.key] # 0)
              => /\ probe'.has
                 /\ probe'.got = [key |-> probe'.key, file |-> 0,
                                  job |-> probe.written[probe'.key]]]_vars
    /\ [][(probe'.op = "set" /\ probe' # probe)
              => {e \in cache' : e.key # probe'.key}
                    = {e \in cache : e.key # probe'.key}]_vars

C25_Witness ==
    /\ probe.op = "get"
    /\ probe.has
    /\ probe.got.job = MaxHandles
    /\ probe.written[probe.key] = MaxHandles
    /\ Cardinality(cache) = 2

====
